---- MODULE Spec2Model ----
(***************************************************************************)
(* Model of the pixel-board server, src/backend/server.js: the session     *)
(* registry (state.users), the grid (state.grid), the in-use color set     *)
(* (state.usedColors), the claim handler, the broadcast fan-out and the    *)
(* periodic cleanup of dead connections.                                   *)
(*                                                                         *)
(* Node runs every handler to completion on one thread, so each handler    *)
(* is one action.  The transport (the ws library) is the environment: it   *)
(* accepts connections, delivers the inbound frames of a connection while  *)
(* it is OPEN, lets a connection leave the OPEN state (CLOSING) before any *)
(* event is emitted, and fires 'error' (CLOSING) and 'close' (CLOSED).     *)
(* ws.send on an OPEN transport returns without throwing; a write that     *)
(* fails is reported afterwards, by the transport leaving the OPEN state   *)
(* and its 'error' and 'close' events (WriteFailure).  cellId is an        *)
(* integer.  Time is Date.now() in milliseconds, counted from the process  *)
(* start.  The connectedAt field of a registry entry is never read and is  *)
(* left out.                                                               *)
(***************************************************************************)
EXTENDS Integers, Sequences, FiniteSets, TLC

(* ---------------------------------------------------------------- bounds *)
MaxConns == 2
(* GRID_SIZE is 400 in the source (server.js:15); the code reads it only  *)
(* to build the grid and in the range check of handleClaimCell, so the   *)
(* model keeps the grid small.                                           *)
GRID_SIZE == 2

(* ------------------------------------------------------------- constants *)
HEARTBEAT_INTERVAL == 30000
CONNECTION_TIMEOUT == 35000
maxAttempts == 50
(* The period of the client's pings (README, Connection Health). *)
PING_INTERVAL == 25000
(* The clock is observed once per monitor period, for two periods: long  *)
(* enough for a silent session to pass the timeout at the second pass.   *)
TickMs == HEARTBEAT_INTERVAL
MaxTime == 2 * HEARTBEAT_INTERVAL

NULL == "null"
NullTime == -1
NoWs == 0

ClaimInputs == {-1, 0, GRID_SIZE}
FrameTypes == {"join", "claim_cell", "ping", "other", "malformed"}
Conns == 1..MaxConns

VARIABLES grid, users, usedColors, connUser, readyState, numConns,
          now, nextCleanup, sent, last, alloc

vars == <<grid, users, usedColors, connUser, readyState, numConns,
          now, nextCleanup, sent, last, alloc>>

(* ------------------------------------------------------------ the grid *)
EmptyCell == [ownerId |-> NULL, color |-> NULL, updatedAt |-> NullTime]

initializeGrid == [i \in 0..(GRID_SIZE - 1) |-> EmptyCell]

(* ------------------------------------------------- state.users, a Map  *)
(* A JavaScript Map keeps insertion order and forEach visits in that     *)
(* order: the registry is a sequence of entries with distinct ids.       *)
UsersHas(us, id) == \E k \in 1..Len(us) : us[k].id = id

UsersGet(us, id) == us[CHOOSE k \in 1..Len(us) : us[k].id = id]

UsersSet(us, e) ==
  IF UsersHas(us, e.id)
  THEN [k \in 1..Len(us) |-> IF us[k].id = e.id THEN e ELSE us[k]]
  ELSE Append(us, e)

UsersDelete(us, id) == SelectSeq(us, LAMBDA e : e.id # id)

(* ------------------------------------------------------------- frames  *)
ErrorMsg(text) == [type |-> "error", message |-> text]

PongMsg == [type |-> "pong"]

ClaimRejectedMsg(cellId) ==
  [type |-> "claim_rejected", cellId |-> cellId, reason |-> "already_claimed",
   message |-> "Cell already claimed by another user"]

CellUpdatedMsg(cellId, cell) ==
  [type |-> "cell_updated", cellId |-> cellId, ownerId |-> cell.ownerId,
   color |-> cell.color, updatedAt |-> cell.updatedAt]

UsersCountMsg(n) == [type |-> "users_count", count |-> n]

(* Faulty variant: the snapshot is a grid built anew, not the current one. *)
InitStateMsg_FreshGrid(userId, color, g, n) ==
  [type |-> "init_state", you |-> [userId |-> userId, color |-> color],
   grid |-> initializeGrid, connectedUsers |-> n]

InitStateMsg(userId, color, g, n) ==
  [type |-> "init_state", you |-> [userId |-> userId, color |-> color],
   grid |-> g, connectedUsers |-> n]

(* ------------------------------------------------------------ sending  *)
IsOpen(rs, ws) == rs[ws] = "OPEN"

SendToClient(ws, rs, message) ==
  IF IsOpen(rs, ws) THEN <<[to |-> ws, msg |-> message]>> ELSE <<>>

(* Faulty variant: the comparison with the excluded transport is inverted. *)
BroadcastTarget_InvertedExclude(e, rs, excludeWs) == e.ws = excludeWs /\ IsOpen(rs, e.ws)

BroadcastTarget(e, rs, excludeWs) == e.ws # excludeWs /\ IsOpen(rs, e.ws)

(* Faulty variant: the fan-out stops after the first delivery. *)
Broadcast_FirstOnly(us, rs, message, excludeWs) ==
  LET targets == SelectSeq(us, LAMBDA e : BroadcastTarget(e, rs, excludeWs))
  IN  IF targets = <<>> THEN <<>> ELSE <<[to |-> targets[1].ws, msg |-> message]>>

RECURSIVE Broadcast(_, _, _, _)
Broadcast(us, rs, message, excludeWs) ==
  IF us = <<>> THEN <<>>
  ELSE (IF BroadcastTarget(Head(us), rs, excludeWs)
        THEN <<[to |-> Head(us).ws, msg |-> message]>>
        ELSE <<>>)
       \o Broadcast(Tail(us), rs, message, excludeWs)

(* Faulty variant: every registry entry is counted, open or not. *)
GetConnectedUsersCount_Size(us, rs) == Len(us)

GetConnectedUsersCount(us, rs) ==
  Cardinality({k \in 1..Len(us) : IsOpen(rs, us[k].ws)})

(* ------------------------------------------------------ handleClaimCell *)
(* ctx is what the handler reads: [users, rs, grid, now].  The result is  *)
(* the grid, the frames sent, and whether a TypeError was thrown (it is   *)
(* caught by the try/catch of the message handler).                      *)
Done(g, out) == [grid |-> g, sent |-> out, threw |-> FALSE]

Threw(g) == [grid |-> g, sent |-> <<>>, threw |-> TRUE]

(* Faulty variant: the upper bound of the range check is missing. *)
InvalidCellId_NoUpperBound(cellId) == cellId < 0

InvalidCellId(cellId) == cellId < 0 \/ cellId >= GRID_SIZE

(* Faulty variant: the own-cell shortcut is missing. *)
OwnedBySelf_Never(cell, userId) == FALSE

OwnedBySelf(cell, userId) == cell.ownerId = userId

(* Faulty variant: last write wins, no claim is rejected. *)
OwnedByOther_LastWriteWins(cell, userId) == FALSE

(* Faulty variant: the null test is missing, an unowned cell counts as another's. *)
OwnedByOther_NoNullCheck(cell, userId) == cell.ownerId # userId

OwnedByOther(cell, userId) == cell.ownerId # NULL /\ cell.ownerId # userId

(* Faulty variant: the commit does not stamp the cell. *)
ClaimedCell_NoTimestamp(userId, user, t) ==
  [ownerId |-> userId, color |-> user.color, updatedAt |-> NullTime]

ClaimedCell(userId, user, t) ==
  [ownerId |-> userId, color |-> user.color, updatedAt |-> t]

(* Faulty variant: the rejection is broadcast instead of sent to the requester. *)
RejectClaim_Broadcast(userId, cellId, ws, ctx) ==
  Done(ctx.grid, Broadcast(ctx.users, ctx.rs, ClaimRejectedMsg(cellId), NoWs))

RejectClaim(userId, cellId, ws, ctx) ==
  Done(ctx.grid, SendToClient(ws, ctx.rs, ClaimRejectedMsg(cellId)))

(* Faulty variant: the claimer is left out of the broadcast. *)
CommitClaim_ExcludesClaimer(userId, cellId, ws, ctx) ==
  LET cell == ClaimedCell(userId, UsersGet(ctx.users, userId), ctx.now)
  IN  Done([ctx.grid EXCEPT ![cellId] = cell],
           Broadcast(ctx.users, ctx.rs, CellUpdatedMsg(cellId, cell), ws))

CommitClaim(userId, cellId, ws, ctx) ==
  LET cell == ClaimedCell(userId, UsersGet(ctx.users, userId), ctx.now)
  IN  Done([ctx.grid EXCEPT ![cellId] = cell],
           Broadcast(ctx.users, ctx.rs, CellUpdatedMsg(cellId, cell), NoWs))

(* Faulty variant: the ownership tests come before the registry test. *)
HandleClaimCell_OwnershipFirst(userId, cellId, ws, ctx) ==
  IF InvalidCellId(cellId)
  THEN Done(ctx.grid, SendToClient(ws, ctx.rs, ErrorMsg("Invalid cell ID")))
  ELSE IF OwnedBySelf(ctx.grid[cellId], userId)
  THEN Done(ctx.grid, <<>>)
  ELSE IF OwnedByOther(ctx.grid[cellId], userId)
  THEN RejectClaim(userId, cellId, ws, ctx)
  ELSE IF ~UsersHas(ctx.users, userId)
  THEN Done(ctx.grid, SendToClient(ws, ctx.rs, ErrorMsg("User not found")))
  ELSE CommitClaim(userId, cellId, ws, ctx)

HandleClaimCell(userId, cellId, ws, ctx) ==
  IF InvalidCellId(cellId)
  THEN Done(ctx.grid, SendToClient(ws, ctx.rs, ErrorMsg("Invalid cell ID")))
  ELSE IF ~UsersHas(ctx.users, userId)
  THEN Done(ctx.grid, SendToClient(ws, ctx.rs, ErrorMsg("User not found")))
  ELSE IF cellId \notin DOMAIN ctx.grid
  THEN Threw(ctx.grid)
  ELSE IF OwnedBySelf(ctx.grid[cellId], userId)
  THEN Done(ctx.grid, <<>>)
  ELSE IF OwnedByOther(ctx.grid[cellId], userId)
  THEN RejectClaim(userId, cellId, ws, ctx)
  ELSE CommitClaim(userId, cellId, ws, ctx)

(* ----------------------------------------------------- handleDisconnect *)
(* st is [grid, users, usedColors, sent]: the state the handler runs in   *)
(* and the frames sent so far by the caller.                             *)
(* Faulty variant: the cells of a session are freed when it is unregistered. *)
HandleDisconnect_FreesCells(st, userId, rs) ==
  IF UsersHas(st.users, userId)
  THEN LET us == UsersDelete(st.users, userId)
       IN  [grid |-> [i \in DOMAIN st.grid |->
                        IF st.grid[i].ownerId = userId THEN EmptyCell ELSE st.grid[i]],
            users |-> us,
            usedColors |-> st.usedColors \ {UsersGet(st.users, userId).color},
            sent |-> st.sent \o
                     Broadcast(us, rs, UsersCountMsg(GetConnectedUsersCount(us, rs)), NoWs)]
  ELSE st

(* Faulty variant: the broadcast is outside the test for a registry entry. *)
HandleDisconnect_BroadcastAlways(st, userId, rs) ==
  IF UsersHas(st.users, userId)
  THEN LET us == UsersDelete(st.users, userId)
       IN  [grid |-> st.grid,
            users |-> us,
            usedColors |-> st.usedColors \ {UsersGet(st.users, userId).color},
            sent |-> st.sent \o
                     Broadcast(us, rs, UsersCountMsg(GetConnectedUsersCount(us, rs)), NoWs)]
  ELSE [st EXCEPT !.sent = st.sent \o
                     Broadcast(st.users, rs,
                               UsersCountMsg(GetConnectedUsersCount(st.users, rs)), NoWs)]

(* Faulty variant: the count is taken before the entry is removed. *)
HandleDisconnect_CountBeforeDelete(st, userId, rs) ==
  IF UsersHas(st.users, userId)
  THEN LET us == UsersDelete(st.users, userId)
       IN  [grid |-> st.grid,
            users |-> us,
            usedColors |-> st.usedColors \ {UsersGet(st.users, userId).color},
            sent |-> st.sent \o
                     Broadcast(us, rs, UsersCountMsg(GetConnectedUsersCount(st.users, rs)), NoWs)]
  ELSE st

HandleDisconnect(st, userId, rs) ==
  IF UsersHas(st.users, userId)
  THEN LET us == UsersDelete(st.users, userId)
       IN  [grid |-> st.grid,
            users |-> us,
            usedColors |-> st.usedColors \ {UsersGet(st.users, userId).color},
            sent |-> st.sent \o
                     Broadcast(us, rs, UsersCountMsg(GetConnectedUsersCount(us, rs)), NoWs)]
  ELSE st

(* ----------------------------------------------- cleanupDeadConnections *)
(* Faulty variant: only a transport that is not open marks a session. *)
IsDead_TransportOnly(e, rs, t) == ~IsOpen(rs, e.ws)

(* Faulty variant: the timeout is taken in seconds, the clock is in milliseconds. *)
IsDead_TimeoutInSeconds(e, rs, t) ==
  ~IsOpen(rs, e.ws) \/ (t - e.lastHeartbeat) > CONNECTION_TIMEOUT \div 1000

IsDead(e, rs, t) == ~IsOpen(rs, e.ws) \/ (t - e.lastHeartbeat) > CONNECTION_TIMEOUT

DeadIds(us, rs, t) ==
  LET dead == SelectSeq(us, LAMBDA e : IsDead(e, rs, t))
  IN  [k \in 1..Len(dead) |-> dead[k].id]

(* Faulty variant: the pass is abandoned after its first eviction. *)
DisconnectAll_FirstOnly(st, ids, rs) ==
  IF ids = <<>> THEN st ELSE HandleDisconnect(st, Head(ids), rs)

RECURSIVE DisconnectAll(_, _, _)
DisconnectAll(st, ids, rs) ==
  IF ids = <<>> THEN st
  ELSE DisconnectAll(HandleDisconnect(st, Head(ids), rs), Tail(ids), rs)

(* -------------------------------------------------- random draws       *)
(* Ids and colors are opaque.  uuid draws are taken not to repeat: the    *)
(* k-th connection gets the k-th id (SpecIds, below, lets a draw repeat   *)
(* an earlier id).  generateNiceColor returns a color   *)
(* outside usedColors, or, after maxAttempts collisions, one inside it;   *)
(* up to renaming, the k-th draw is one of the first k color names.       *)
IdNames == <<"u_1", "u_2", "u_3", "u_4">>

ColorNames == <<"hsl(0, 65%, 45%)", "hsl(120, 70%, 50%)">>

generateUserId(k) == IdNames[k]

generateNiceColor(k) ==
  {ColorNames[j] : j \in 1..(IF k < Len(ColorNames) THEN k ELSE Len(ColorNames))}

(* History, for stating the properties.  Of the last step: the handler   *)
(* that ran, its connection and cell, the grid before it ran, whether    *)
(* the connection had a session in the registry before it ran, whether   *)
(* it is a claim that directly follows the accepted claim of another     *)
(* session on the same cell, and the connections a write of the step     *)
(* failed on.  For a monitor pass and for a disconnect of a connection   *)
(* that has no session, also the registry and the color set before the   *)
(* step.  Of the whole run: the connections a disconnect of their        *)
(* session has been processed for.                                       *)
HadSession(conn) == conn # NoWs /\ UsersHas(users, connUser[conn])

Compared(op, conn) ==
  op = "cleanup" \/ (op \in {"close", "error"} /\ ~HadSession(conn))

ConnsOf(ids) == {c \in Conns : \E k \in 1..Len(ids) : connUser[c] = ids[k]}

Event(op, conn, cellId) ==
  [op |-> op, conn |-> conn, cellId |-> cellId, grid |-> grid,
   users |-> IF Compared(op, conn) THEN users ELSE <<>>,
   usedColors |-> IF Compared(op, conn) THEN usedColors ELSE {},
   readyState |-> IF op = "cleanup" THEN readyState ELSE <<>>,
   registered |-> HadSession(conn),
   gone |-> last.gone \cup (CASE op \in {"close", "error"} -> {conn}
                              [] op = "cleanup" -> ConnsOf(DeadIds(users, readyState, now))
                              [] OTHER -> {}),
   failed |-> {},
   follows |-> /\ op = "claim_cell"
               /\ last.op = "claim_cell"
               /\ last.cellId = cellId
               /\ connUser[last.conn] # connUser[conn]
               /\ cellId \in DOMAIN grid
               /\ last.grid[cellId].ownerId = NULL
               /\ grid[cellId].ownerId # NULL]

StateNow == [grid |-> grid, users |-> users, usedColors |-> usedColors, sent |-> <<>>]

(* ---------------------------------------------------- generateNiceColor *)
(* The do-while loop, one candidate per step.  alloc is the loop's state:  *)
(* the connection the color is drawn for, the number of candidates drawn  *)
(* (attempts), the last candidate (color), and how many of the candidates *)
(* drawn were in state.usedColors.                                         *)
NoAlloc == [pc |-> "idle", for |-> NoWs, attempts |-> 0, color |-> NULL, collided |-> 0]

(* Faulty variant: the retry bound is off by one. *)
KeepDrawing_OffByOne(color, attempts, used) == color \in used /\ attempts <= maxAttempts

(* The loop condition. *)
KeepDrawing(color, attempts, used) == color \in used /\ attempts < maxAttempts

(* ------------------------------------------------------------- actions *)
Init ==
  /\ grid = initializeGrid
  /\ users = <<>>
  /\ usedColors = {}
  /\ connUser = [c \in Conns |-> NULL]
  /\ readyState = [c \in Conns |-> "NONE"]
  /\ numConns = 0
  /\ now = 0
  /\ nextCleanup = HEARTBEAT_INTERVAL
  /\ sent = <<>>
  /\ last = [op |-> "init", conn |-> NoWs, cellId |-> 0, grid |-> initializeGrid,
             users |-> <<>>, usedColors |-> {}, readyState |-> <<>>,
             registered |-> FALSE, gone |-> {},
             failed |-> {}, follows |-> FALSE]
  /\ alloc = NoAlloc

(* Faulty variant: the count is taken before the new session is registered. *)
OnConnection_CountBeforeRegister(userId, userColor) ==
  /\ numConns < MaxConns
  /\ LET ws == numConns + 1
         rs == [readyState EXCEPT ![ws] = "OPEN"]
         us == UsersSet(users, [id |-> userId, color |-> userColor,
                                lastHeartbeat |-> now, ws |-> ws])
     IN  /\ numConns' = ws
         /\ readyState' = rs
         /\ connUser' = [connUser EXCEPT ![ws] = userId]
         /\ usedColors' = usedColors \cup {userColor}
         /\ users' = us
         /\ sent' = SendToClient(ws, rs, InitStateMsg(userId, userColor, grid,
                                                       GetConnectedUsersCount(users, rs)))
                    \o Broadcast(us, rs, UsersCountMsg(GetConnectedUsersCount(users, rs)), ws)
         /\ last' = Event("connection", ws, 0)
  /\ UNCHANGED <<grid, now, nextCleanup, alloc>>

(* Faulty variant: the count is broadcast to everybody before the snapshot is sent. *)
OnConnection_BroadcastFirst(userId, userColor) ==
  /\ numConns < MaxConns
  /\ LET ws == numConns + 1
         rs == [readyState EXCEPT ![ws] = "OPEN"]
         us == UsersSet(users, [id |-> userId, color |-> userColor,
                                lastHeartbeat |-> now, ws |-> ws])
     IN  /\ numConns' = ws
         /\ readyState' = rs
         /\ connUser' = [connUser EXCEPT ![ws] = userId]
         /\ usedColors' = usedColors \cup {userColor}
         /\ users' = us
         /\ sent' = Broadcast(us, rs, UsersCountMsg(GetConnectedUsersCount(us, rs)), NoWs)
                    \o SendToClient(ws, rs, InitStateMsg(userId, userColor, grid,
                                                          GetConnectedUsersCount(us, rs)))
         /\ last' = Event("connection", ws, 0)
  /\ UNCHANGED <<grid, now, nextCleanup, alloc>>

(* wss.on('connection') *)
OnConnection(userId, userColor) ==
  /\ numConns < MaxConns
  /\ LET ws == numConns + 1
         rs == [readyState EXCEPT ![ws] = "OPEN"]
         us == UsersSet(users, [id |-> userId, color |-> userColor,
                                lastHeartbeat |-> now, ws |-> ws])
     IN  /\ numConns' = ws
         /\ readyState' = rs
         /\ connUser' = [connUser EXCEPT ![ws] = userId]
         /\ usedColors' = usedColors \cup {userColor}
         /\ users' = us
         /\ sent' = SendToClient(ws, rs, InitStateMsg(userId, userColor, grid,
                                                       GetConnectedUsersCount(us, rs)))
                    \o Broadcast(us, rs, UsersCountMsg(GetConnectedUsersCount(us, rs)), ws)
         /\ last' = Event("connection", ws, 0)
  /\ UNCHANGED <<grid, now, nextCleanup, alloc>>

(* Faulty variant: a frame of a connection without a session registers one. *)
Touch_Upsert(us, userId, t) ==
  IF UsersHas(us, userId)
  THEN UsersSet(us, [UsersGet(us, userId) EXCEPT !.lastHeartbeat = t])
  ELSE UsersSet(us, [id |-> userId, color |-> NULL, lastHeartbeat |-> t,
                     ws |-> CHOOSE c \in Conns : connUser[c] = userId])

Touch(us, userId, t) ==
  IF UsersHas(us, userId)
  THEN UsersSet(us, [UsersGet(us, userId) EXCEPT !.lastHeartbeat = t])
  ELSE us

(* Faulty variant: the parse error is reported to every open connection. *)
ParseErrorReply_ToAll(ws, rs) ==
  SelectSeq([c \in Conns |-> [to |-> c, msg |-> ErrorMsg("Invalid message format")]],
            LAMBDA f : IsOpen(rs, f.to))

(* The catch block of the message handler. *)
ParseErrorReply(ws, rs) == SendToClient(ws, rs, ErrorMsg("Invalid message format"))

(* ws.on('message') *)
OnMessage(ws, type, cellId) ==
  /\ ws \in 1..numConns
  /\ readyState[ws] = "OPEN"
  /\ LET userId == connUser[ws]
         us == Touch(users, userId, now)
     IN  CASE type = "malformed" ->
                /\ sent' = ParseErrorReply(ws, readyState)
                /\ UNCHANGED <<users, grid>>
           [] type = "claim_cell" ->
                LET r == HandleClaimCell(userId, cellId, ws,
                                         [users |-> us, rs |-> readyState,
                                          grid |-> grid, now |-> now])
                IN  /\ users' = us
                    /\ grid' = r.grid
                    /\ sent' = IF r.threw
                               THEN r.sent \o ParseErrorReply(ws, readyState)
                               ELSE r.sent
           [] type = "ping" ->
                /\ users' = us
                /\ sent' = SendToClient(ws, readyState, PongMsg)
                /\ UNCHANGED grid
           [] OTHER ->
                /\ users' = us
                /\ sent' = <<>>
                /\ UNCHANGED grid
  /\ last' = Event(type, ws, cellId)
  /\ UNCHANGED <<usedColors, connUser, readyState, numConns, now, nextCleanup, alloc>>

(* The transport leaves the OPEN state before any event is emitted. *)
TransportClosing(ws) ==
  /\ ws \in 1..numConns
  /\ readyState[ws] = "OPEN"
  /\ readyState' = [readyState EXCEPT ![ws] = "CLOSING"]
  /\ sent' = <<>>
  /\ last' = Event("closing", ws, 0)
  /\ UNCHANGED <<grid, users, usedColors, connUser, numConns, now, nextCleanup, alloc>>

Disconnected(ws, rs, op) ==
  LET st == HandleDisconnect(StateNow, connUser[ws], rs)
  IN  /\ readyState' = rs
      /\ grid' = st.grid
      /\ users' = st.users
      /\ usedColors' = st.usedColors
      /\ sent' = st.sent
      /\ last' = Event(op, ws, 0)
      /\ UNCHANGED <<connUser, numConns, now, nextCleanup, alloc>>

(* ws.on('close') *)
OnClose(ws) ==
  /\ ws \in 1..numConns
  /\ readyState[ws] \in {"OPEN", "CLOSING"}
  /\ Disconnected(ws, [readyState EXCEPT ![ws] = "CLOSED"], "close")

(* ws.on('error'): the transport is closing when the event is emitted *)
OnError(ws) ==
  /\ ws \in 1..numConns
  /\ readyState[ws] \in {"OPEN", "CLOSING"}
  /\ Disconnected(ws, [readyState EXCEPT ![ws] = "CLOSING"], "error")

(* setInterval(cleanupDeadConnections, HEARTBEAT_INTERVAL) *)
CleanupDeadConnections ==
  /\ now >= nextCleanup
  /\ LET st == DisconnectAll(StateNow, DeadIds(users, readyState, now), readyState)
     IN  /\ grid' = st.grid
         /\ users' = st.users
         /\ usedColors' = st.usedColors
         /\ sent' = st.sent
  /\ nextCleanup' = nextCleanup + HEARTBEAT_INTERVAL
  /\ last' = Event("cleanup", NoWs, 0)
  /\ UNCHANGED <<connUser, readyState, numConns, now, alloc>>

(* A write of the last broadcast fails.  ws.send has returned by then:    *)
(* the failure reaches the server as the transport leaving the OPEN      *)
(* state, followed by its 'error' and 'close' events.                    *)
BroadcastTypes == {"users_count", "cell_updated"}

WriteFailure(ws) ==
  /\ ws \in 1..numConns
  /\ readyState[ws] = "OPEN"
  /\ \E k \in 1..Len(sent) : sent[k].to = ws /\ sent[k].msg.type \in BroadcastTypes
  /\ readyState' = [readyState EXCEPT ![ws] = "CLOSING"]
  /\ last' = [last EXCEPT !.failed = @ \cup {ws}]
  /\ UNCHANGED <<grid, users, usedColors, connUser, numConns, now, nextCleanup, sent, alloc>>

(* Time passes; a due timer runs before time passes further. *)
Tick ==
  /\ now < MaxTime
  /\ now < nextCleanup
  /\ now' = now + TickMs
  /\ sent' = <<>>
  /\ last' = Event("tick", NoWs, 0)
  /\ UNCHANGED <<grid, users, usedColors, connUser, readyState, numConns, nextCleanup, alloc>>

Connect ==
  \E userColor \in generateNiceColor(numConns + 1) :
    OnConnection(generateUserId(numConns + 1), userColor)

Message == \E ws \in Conns, type \in FrameTypes \ {"claim_cell"} : OnMessage(ws, type, 0)

Claim == \E ws \in Conns, cellId \in ClaimInputs : OnMessage(ws, "claim_cell", cellId)

Closing == \E ws \in Conns : TransportClosing(ws)

Close == \E ws \in Conns : OnClose(ws)

Error == \E ws \in Conns : OnError(ws)

Failure == \E ws \in Conns : WriteFailure(ws)

Next ==
  \/ Connect
  \/ Message
  \/ Claim
  \/ Closing
  \/ Close
  \/ Error
  \/ Failure
  \/ CleanupDeadConnections
  \/ Tick

Spec == Init /\ [][Next]_vars

(* ------------------------------------------------ repeated id draws    *)
(* generateUserId keeps the first 8 hex digits of a random uuid and does  *)
(* not look at the registry or at the ids issued before: up to renaming,  *)
(* the k-th id drawn is a new one or one of the k - 1 drawn earlier.      *)
DrawnUserIds(k) == {IdNames[j] : j \in 1..k}

ConnectAnyId ==
  \E userColor \in generateNiceColor(numConns + 1), userId \in DrawnUserIds(numConns + 1) :
    OnConnection(userId, userColor)

NextIds ==
  \/ ConnectAnyId
  \/ Message
  \/ Claim
  \/ Closing
  \/ Close
  \/ Error
  \/ Failure
  \/ CleanupDeadConnections
  \/ Tick

SpecIds == Init /\ [][NextIds]_vars

(* ------------------------------------------------ a finer clock        *)
(* The connections, their pings and the monitor, with the clock observed  *)
(* every 5 s (the difference between the timeout and the monitor period,  *)
(* which divides the ping period, the monitor period and the timeout)     *)
(* until after the second monitor pass.                                   *)
ClockStep == CONNECTION_TIMEOUT - HEARTBEAT_INTERVAL

MaxTimeFine == 2 * HEARTBEAT_INTERVAL + 2 * ClockStep

TickFine ==
  /\ now < MaxTimeFine
  /\ now < nextCleanup
  /\ now' = now + ClockStep
  /\ sent' = <<>>
  /\ last' = Event("tick", NoWs, 0)
  /\ UNCHANGED <<grid, users, usedColors, connUser, readyState, numConns, nextCleanup, alloc>>

Ping == \E ws \in Conns : OnMessage(ws, "ping", 0)

NextClock ==
  \/ Connect
  \/ Ping
  \/ Closing
  \/ Close
  \/ CleanupDeadConnections
  \/ TickFine

SpecClock == Init /\ [][NextClock]_vars

(* ------------------------------------------------ the allocation loop  *)
(* The connection handler with generateNiceColor run one candidate at a   *)
(* time: DrawCandidate is one iteration of the loop, Allocated the rest   *)
(* of the handler with the color the loop returned.  No other handler     *)
(* runs while the loop does.                                              *)
Allocating == alloc.pc = "loop" \/ (alloc.pc = "done" /\ alloc.for = numConns + 1)

DrawCandidate(candidate) ==
  /\ numConns < MaxConns
  /\ alloc.pc = "loop" \/ ~Allocating
  /\ LET attempts == IF alloc.pc = "loop" THEN alloc.attempts + 1 ELSE 1
         collided == (IF alloc.pc = "loop" THEN alloc.collided ELSE 0)
                     + (IF candidate \in usedColors THEN 1 ELSE 0)
     IN  alloc' = [pc |-> IF KeepDrawing(candidate, attempts, usedColors)
                          THEN "loop" ELSE "done",
                   for |-> numConns + 1,
                   attempts |-> attempts,
                   color |-> candidate,
                   collided |-> collided]
  /\ UNCHANGED <<grid, users, usedColors, connUser, readyState, numConns,
                 now, nextCleanup, sent, last>>

Draw == \E i \in 1..Len(ColorNames) : DrawCandidate(ColorNames[i])

Allocated ==
  /\ alloc.pc = "done"
  /\ alloc.for = numConns + 1
  /\ OnConnection(generateUserId(numConns + 1), alloc.color)

Released == ~Allocating /\ Close

NextColor ==
  \/ Draw
  \/ Allocated
  \/ Released

SpecColor == Init /\ [][NextColor]_vars

(* ================================================================ claims *)
Cells == 0..(GRID_SIZE - 1)

(* The connection of the last step has a session: its id is in the registry.   *)
(* No handler of an inbound frame adds or removes a registry entry, so this is *)
(* the same before and after the step.                                         *)
Registered(ws) == UsersHas(users, connUser[ws])

(* The last step handled a claim_cell frame for a cell of the grid. *)
ClaimOnGrid == last.op = "claim_cell" /\ last.cellId \in Cells

OwnerBefore == last.grid[last.cellId].ownerId

FramesTo(out, ws) == SelectSeq(out, LAMBDA f : f.to = ws)

IsRejection(msg, cellId) ==
  /\ msg.type = "claim_rejected"
  /\ msg.cellId = cellId
  /\ msg.reason = "already_claimed"

OnlyRejection ==
  /\ Len(sent) = 1
  /\ sent[1].to = last.conn
  /\ IsRejection(sent[1].msg, last.cellId)

OtherOpenSession ==
  \E ws \in Conns : ws # last.conn /\ readyState[ws] = "OPEN" /\ Registered(ws)

(* C1: a cell that has an owner never goes back to having none, so at most   *)
(* one claim takes it from unowned to owned; and every claim on an owned     *)
(* cell by a different session is answered to the requester with             *)
(* claim_rejected, reason "already_claimed".                                 *)
C1_FirstComeFirstServed ==
  /\ \A i \in Cells : last.grid[i].ownerId # NULL => grid[i].ownerId # NULL
  /\ (ClaimOnGrid /\ Registered(last.conn) /\ OwnerBefore \notin {NULL, connUser[last.conn]})
       => \E k \in 1..Len(sent) :
            sent[k].to = last.conn /\ IsRejection(sent[k].msg, last.cellId)

C1_Witness ==
  /\ ClaimOnGrid
  /\ Registered(last.conn)
  /\ OwnerBefore \notin {NULL, connUser[last.conn]}
  /\ OnlyRejection

(* C2: once a cell has an owner, the owner is the same after every step,     *)
(* whatever the step is: another session's claim, the owner's disconnect,    *)
(* the owner's eviction by the cleanup pass.                                 *)
C2_OwnerPermanent ==
  \A i \in Cells :
    last.grid[i].ownerId # NULL => grid[i].ownerId = last.grid[i].ownerId

(* The cleanup pass evicted the owner of a cell, its transport being open. *)
C2_Witness ==
  /\ last.op = "cleanup"
  /\ Len(sent) > 0
  /\ \E i \in Cells, ws \in Conns :
       /\ grid[i].ownerId = connUser[ws]
       /\ readyState[ws] = "OPEN"
       /\ ~Registered(ws)

(* C3: of two claims for the same unowned cell by two different registered   *)
(* sessions, handled one right after the other, the first is accepted: it    *)
(* becomes the owner and is sent no rejection; the second is rejected and    *)
(* the owner stays the first.                                                *)
C3_ExactlyOneAccepted ==
  /\ (ClaimOnGrid /\ Registered(last.conn) /\ OwnerBefore = NULL)
       => /\ grid[last.cellId].ownerId = connUser[last.conn]
          /\ \A k \in 1..Len(sent) : sent[k].msg.type = "cell_updated"
  /\ (ClaimOnGrid /\ last.follows /\ Registered(last.conn))
       => /\ OnlyRejection
          /\ grid[last.cellId].ownerId = OwnerBefore
          /\ OwnerBefore \notin {NULL, connUser[last.conn]}

C3_Witness ==
  /\ ClaimOnGrid
  /\ last.follows
  /\ Registered(last.conn)
  /\ UsersHas(users, OwnerBefore)
  /\ OnlyRejection

(* C4: a claim by the session that owns the cell sends no frame to anyone    *)
(* and leaves the grid as it was.                                            *)
C4_OwnReclaimSilent ==
  (ClaimOnGrid /\ Registered(last.conn) /\ OwnerBefore = connUser[last.conn])
    => sent = <<>> /\ grid = last.grid

(* The owner claimed its cell again, later than the first time, while        *)
(* another session could have been sent a frame.                             *)
C4_Witness ==
  /\ ClaimOnGrid
  /\ Registered(last.conn)
  /\ OwnerBefore = connUser[last.conn]
  /\ grid[last.cellId].updatedAt < now
  /\ OtherOpenSession

(* C5: a claim whose cellId is an integer outside [0, GRID_SIZE) sends one   *)
(* frame, the error "Invalid cell ID", to the requester, and leaves the grid *)
(* as it was.                                                                *)
C5_OutOfRangeClaim ==
  (last.op = "claim_cell" /\ last.cellId \notin Cells)
    => /\ sent = <<[to |-> last.conn,
                    msg |-> [type |-> "error", message |-> "Invalid cell ID"]]>>
       /\ grid = last.grid

C5_Witness ==
  /\ last.op = "claim_cell"
  /\ last.cellId = GRID_SIZE
  /\ Len(sent) = 1
  /\ \E i \in Cells : grid[i].ownerId # NULL
  /\ OtherOpenSession

(* C6: a claim from a connection whose id is not in the registry sends one   *)
(* frame, an error, to that connection, and leaves the grid as it was; for a *)
(* cell of the grid the error is "User not found".                           *)
C6_UnknownSessionClaim ==
  (last.op = "claim_cell" /\ ~Registered(last.conn))
    => /\ Len(sent) = 1
       /\ sent[1].to = last.conn
       /\ sent[1].msg.type = "error"
       /\ (last.cellId \in Cells => sent[1].msg.message = "User not found")
       /\ grid = last.grid

(* An evicted connection, its transport still open, claimed a cell while     *)
(* another session could have been sent a frame.                             *)
C6_Witness ==
  /\ ClaimOnGrid
  /\ ~Registered(last.conn)
  /\ Len(sent) = 1
  /\ OtherOpenSession

(* C7: every cell is fully unclaimed or fully claimed: ownerId, color and    *)
(* updatedAt are null together.                                              *)
C7_CellAllOrNothing ==
  \A i \in Cells :
    /\ (grid[i].ownerId = NULL) <=> (grid[i].color = NULL)
    /\ (grid[i].color = NULL) <=> (grid[i].updatedAt = NullTime)

C7_Witness ==
  /\ ClaimOnGrid
  /\ OwnerBefore = NULL
  /\ grid[last.cellId].ownerId # NULL
  /\ grid[last.cellId].color # NULL
  /\ grid[last.cellId].updatedAt # NullTime
  /\ \E i \in Cells : grid[i] = EmptyCell

(* C8: when a claim by a registered session on an unowned cell is accepted,  *)
(* every other registered session whose transport is open is sent exactly    *)
(* one frame: cell_updated with the cell, the claimer's id and the color the *)
(* claimer has in the registry.                                              *)
C8_CellUpdatedFanOut ==
  (ClaimOnGrid /\ Registered(last.conn) /\ OwnerBefore = NULL)
    => \A k \in 1..Len(users) :
         (users[k].ws # last.conn /\ readyState[users[k].ws] = "OPEN")
           => LET got == FramesTo(sent, users[k].ws)
              IN  /\ Len(got) = 1
                  /\ got[1].msg.type = "cell_updated"
                  /\ got[1].msg.cellId = last.cellId
                  /\ got[1].msg.ownerId = connUser[last.conn]
                  /\ got[1].msg.color = UsersGet(users, connUser[last.conn]).color

C8_Witness ==
  /\ ClaimOnGrid
  /\ Registered(last.conn)
  /\ OwnerBefore = NULL
  /\ OtherOpenSession
  /\ \E k \in 1..Len(sent) : sent[k].to # last.conn /\ sent[k].msg.type = "cell_updated"

(* C9: when a registered session claims a cell owned by a different session, *)
(* every frame sent goes to the requester, one of them is claim_rejected,    *)
(* and the cell keeps its owner and its color.                               *)
C9_RejectionUnicast ==
  (ClaimOnGrid /\ Registered(last.conn) /\ OwnerBefore \notin {NULL, connUser[last.conn]})
    => /\ \A k \in 1..Len(sent) : sent[k].to = last.conn
       /\ \E k \in 1..Len(sent) : sent[k].msg.type = "claim_rejected"
       /\ grid[last.cellId].ownerId = OwnerBefore
       /\ grid[last.cellId].color = last.grid[last.cellId].color

(* A claim was rejected while the owner itself was registered with an open   *)
(* transport, and was sent nothing.                                          *)
C9_Witness ==
  /\ ClaimOnGrid
  /\ Registered(last.conn)
  /\ OwnerBefore \notin {NULL, connUser[last.conn]}
  /\ \E ws \in Conns :
       /\ connUser[ws] = OwnerBefore
       /\ readyState[ws] = "OPEN"
       /\ Registered(ws)
       /\ FramesTo(sent, ws) = <<>>
  /\ Len(sent) = 1

(* C10: the grid in the init_state frame of a new connection shows, for      *)
(* every cell that had an owner before the connection was accepted, that     *)
(* owner and its color.                                                      *)
C10_SnapshotComplete ==
  last.op = "connection"
    => LET got == FramesTo(sent, last.conn)
       IN  /\ Len(got) = 1
           /\ got[1].msg.type = "init_state"
           /\ DOMAIN got[1].msg.grid = Cells
           /\ \A i \in Cells :
                last.grid[i].ownerId # NULL
                  => /\ got[1].msg.grid[i].ownerId = last.grid[i].ownerId
                     /\ got[1].msg.grid[i].color = last.grid[i].color

C10_Witness ==
  /\ last.op = "connection"
  /\ \E i \in Cells : last.grid[i].ownerId # NULL
  /\ \E k \in 1..Len(sent) : sent[k].to = last.conn /\ sent[k].msg.type = "init_state"

(* ------------------------------------------------------------------ *)
Accepts == numConns

Disconnects == Cardinality(last.gone)

Remaining == (1..numConns) \ last.gone

LiveCount == GetConnectedUsersCount(users, readyState)

(* C11, as stated: after N accepts and M disconnects of distinct accepted    *)
(* sessions, in any interleaving, getConnectedUsersCount() returns N - M.    *)
C11_CountIsAcceptsMinusDisconnects == LiveCount = Accepts - Disconnects

(* C11, amended: after N accepts and M disconnects of distinct accepted      *)
(* sessions, in any interleaving, the registry holds the N - M remaining     *)
(* sessions, and getConnectedUsersCount() returns the number of them whose   *)
(* transport is open, which is N - M when all of them are open.              *)
C11_CountOfOpenRemaining ==
  /\ Len(users) = Accepts - Disconnects
  /\ \A ws \in 1..numConns : Registered(ws) <=> ws \in Remaining
  /\ LiveCount = Cardinality({ws \in Remaining : readyState[ws] = "OPEN"})
  /\ (\A ws \in Remaining : readyState[ws] = "OPEN") => LiveCount = Accepts - Disconnects

C11_Witness ==
  /\ last.op = "connection"
  /\ Disconnects >= 1
  /\ \A ws \in Remaining : readyState[ws] = "OPEN"
  /\ LiveCount = Accepts - Disconnects
  /\ LiveCount >= 1

(* ------------------------------------------------------------------ *)
(* The transports as the last handler found them: a connection one of    *)
(* its writes failed on was open.                                         *)
ReadyStateThen == [c \in Conns |-> IF c \in last.failed THEN "OPEN" ELSE readyState[c]]

(* A monitor pass changes neither the clock nor the transports, so the    *)
(* sessions it marked are the dead ones of the registry before the pass.  *)
Marked == DeadIds(last.users, ReadyStateThen, now)

(* The registry of a monitor pass after its first j evictions. *)
RegistryAfter(j) ==
  SelectSeq(last.users, LAMBDA e : \A i \in 1..j : Marked[i] # e.id)

OpenIn(us) == {k \in 1..Len(us) : ReadyStateThen[us[k].ws] = "OPEN"}

FreshIn(us) == {k \in OpenIn(us) : now - us[k].lastHeartbeat <= CONNECTION_TIMEOUT}

(* The eviction of a monitor pass whose broadcast the k-th frame of the   *)
(* pass belongs to: the j-th broadcast has one frame per open session of  *)
(* the registry after j evictions.                                        *)
RECURSIVE EvictionOf(_, _)
EvictionOf(k, j) ==
  IF j >= Len(Marked) \/ k <= Cardinality(OpenIn(RegistryAfter(j)))
  THEN j
  ELSE EvictionOf(k - Cardinality(OpenIn(RegistryAfter(j))), j + 1)

(* The registry at the moment the k-th frame of the last step was sent. *)
RegistryAt(k) ==
  IF last.op = "cleanup" THEN RegistryAfter(EvictionOf(k, 1)) ELSE users

IsCount(msg) == msg.type \in {"users_count", "init_state"}

CountOf(msg) == IF msg.type = "users_count" THEN msg.count ELSE msg.connectedUsers

(* C12, as stated: every count reported to clients (users_count.count,      *)
(* init_state.connectedUsers) equals, at the moment it is sent, the number   *)
(* of sessions whose transport is open and whose last liveness signal is     *)
(* within the timeout.                                                       *)
C12_CountIsOpenAndFresh ==
  \A k \in 1..Len(sent) :
    IsCount(sent[k].msg) => CountOf(sent[k].msg) = Cardinality(FreshIn(RegistryAt(k)))

(* C12, amended: every count reported to clients equals, at the moment it    *)
(* is sent, the number of registered sessions whose transport is open,       *)
(* whether or not their last liveness signal is within the timeout.          *)
C12_CountIsOpen ==
  \A k \in 1..Len(sent) :
    IsCount(sent[k].msg) => CountOf(sent[k].msg) = Cardinality(OpenIn(RegistryAt(k)))

C12_Witness ==
  /\ last.op = "connection"
  /\ Len(sent) = 2
  /\ sent[1].msg.type = "init_state"
  /\ sent[2].msg.type = "users_count"
  /\ sent[1].msg.connectedUsers = 2
  /\ sent[2].msg.count = 2
  /\ Cardinality(FreshIn(users)) = 1

(* ------------------------------------------------------------------ *)
SilentFor(e) == now - e.lastHeartbeat

(* C13: a monitor pass leaves no session in the registry whose last         *)
(* liveness signal is older than the timeout (35 s), and so no registered   *)
(* session is ever silent for more than one monitor interval (30 s) plus    *)
(* the timeout.                                                             *)
C13_SilentSessionEvicted ==
  /\ last.op = "cleanup" =>
       \A k \in 1..Len(users) : SilentFor(users[k]) <= CONNECTION_TIMEOUT
  /\ \A k \in 1..Len(users) :
       SilentFor(users[k]) <= HEARTBEAT_INTERVAL + CONNECTION_TIMEOUT

C13_Witness ==
  /\ last.op = "cleanup"
  /\ \E k \in 1..Len(last.users) :
       /\ SilentFor(last.users[k]) > CONNECTION_TIMEOUT
       /\ readyState[last.users[k].ws] = "OPEN"
       /\ ~UsersHas(users, last.users[k].id)

(* ------------------------------------------------------------------ *)
OpenThen(ws) == ReadyStateThen[ws] = "OPEN"

(* C14: a monitor pass that evicts at least one session emits exactly one   *)
(* users_count broadcast, after all its evictions: every frame of the pass  *)
(* carries the count after the pass, every session that is registered and   *)
(* open after the pass gets exactly one frame, and nobody else gets any.    *)
C14_OneBroadcastPerPass ==
  (last.op = "cleanup" /\ Marked # <<>>) =>
    /\ \A k \in 1..Len(sent) :
         sent[k].msg = UsersCountMsg(Cardinality(OpenIn(users)))
    /\ \A ws \in Conns :
         Len(FramesTo(sent, ws)) = IF Registered(ws) /\ OpenThen(ws) THEN 1 ELSE 0

(* ------------------------------------------------------------------ *)
(* The last step is a handleDisconnect for a connection whose session is  *)
(* no longer in the registry: an earlier 'error' or 'close' event or a    *)
(* monitor pass has unregistered it.                                      *)
SecondDisconnect == last.op \in {"close", "error"} /\ ~last.registered

(* C15: a second handleDisconnect for the same session changes neither the  *)
(* registry nor the in-use color set and sends no frame.                    *)
C15_UnregisterIdempotent ==
  SecondDisconnect =>
    /\ users = last.users
    /\ usedColors = last.usedColors
    /\ sent = <<>>

C15_Witness ==
  /\ SecondDisconnect
  /\ last.op = "close"
  /\ users = last.users
  /\ usedColors # {}
  /\ \E ws \in Conns : Registered(ws) /\ readyState[ws] = "OPEN"

(* ------------------------------------------------------------------ *)
(* The k-th frame of the last step is a broadcast frame whose write failed. *)
FailedWrite(k) ==
  sent[k].to \in last.failed /\ sent[k].msg.type \in BroadcastTypes

(* The transport the broadcast of the last step excludes. *)
Excluded == IF last.op = "connection" THEN last.conn ELSE NoWs

FrameOfSession == last.op \in FrameTypes /\ last.registered /\ Registered(last.conn)

LastSignal(ws) == UsersGet(users, connUser[ws]).lastHeartbeat

(* C18: any inbound frame of a registered session (join, claim_cell, ping,  *)
(* unknown type, or unparseable) sets the last liveness timestamp of that   *)
(* session to the current time.                                             *)
C18_AnyFrameTouches == FrameOfSession => LastSignal(last.conn) = now

(* ------------------------------------------------------------------ *)
(* C19: an unparseable frame is answered with one error frame to the        *)
(* connection it came from and with nothing else: no other frame is sent,   *)
(* the grid is as before, the transport is open, and a session that was in  *)
(* the registry is still in it.                                             *)
C19_ParseErrorContained ==
  last.op = "malformed" =>
    /\ sent = <<[to |-> last.conn, msg |-> ErrorMsg("Invalid message format")]>>
    /\ grid = last.grid
    /\ readyState[last.conn] = "OPEN"
    /\ last.registered => Registered(last.conn)

C19_Witness ==
  /\ last.op = "malformed"
  /\ last.registered
  /\ Registered(last.conn)
  /\ OtherOpenSession
  /\ \E i \in Cells : grid[i].ownerId # NULL
  /\ Len(sent) = 1
  /\ sent[1].msg.type = "error"

(* ------------------------------------------------------------------ *)
ColorsHeld == {users[k].color : k \in 1..Len(users)}

(* C20: in every reachable state the in-use color set is exactly the set    *)
(* of colors of the sessions in the registry; in particular a color is      *)
(* not removed while a registered session still holds it.                   *)
C20_UsedColorsAreColorsHeld == usedColors = ColorsHeld

(* ------------------------------------------------------------------ *)
(* C21: the allocation loop draws at most 50 candidates; it returns the     *)
(* first candidate that is not in the in-use set (every candidate before    *)
(* it was in the set), and it returns a candidate that is in the set only   *)
(* when it is the 50th and all 50 were in the set.                          *)
C21_AllocationBounded ==
  /\ alloc.attempts <= maxAttempts
  /\ alloc.pc = "loop" => alloc.attempts < maxAttempts
  /\ (alloc.pc = "done" /\ alloc.for = numConns + 1) =>
       IF alloc.color \in usedColors
       THEN alloc.attempts = maxAttempts /\ alloc.collided = maxAttempts
       ELSE alloc.collided = alloc.attempts - 1

C21_Witness ==
  /\ last.op = "connection"
  /\ alloc.pc = "done"
  /\ alloc.for = last.conn
  /\ alloc.attempts = maxAttempts
  /\ alloc.collided = maxAttempts
  /\ \E k \in 1..Len(users) : users[k].ws # last.conn /\ users[k].color = alloc.color

(* ------------------------------------------------------------------ *)
(* C22: the ids issued to the accepted connections are pairwise distinct,   *)
(* and the registry entry under the id of a connection is the entry of      *)
(* that connection: no accept has overwritten it.                           *)
C22_IdsUnique ==
  /\ \A a, b \in 1..numConns : a # b => connUser[a] # connUser[b]
  /\ \A ws \in 1..numConns : Registered(ws) => UsersGet(users, connUser[ws]).ws = ws

(* ------------------------------------------------------------------ *)
IsInitState(k) == sent[k].msg.type = "init_state"

(* C23: a connection is sent its init_state in the step that accepts it,    *)
(* as the first frame of that step and the only one it gets in it; no       *)
(* other step sends an init_state, and no frame is ever addressed to a      *)
(* connection that has not been accepted.  So every accepted connection     *)
(* gets init_state exactly once, before any other frame.                    *)
C23_InitStateFirstAndOnce ==
  /\ last.op = "connection" =>
       /\ Len(sent) >= 1
       /\ sent[1].to = last.conn
       /\ IsInitState(1)
       /\ Len(FramesTo(sent, last.conn)) = 1
  /\ \A k \in 1..Len(sent) :
       /\ IsInitState(k) => (last.op = "connection" /\ k = 1)
       /\ sent[k].to \in 1..numConns

C23_Witness ==
  /\ last.op = "connection"
  /\ Len(sent) = 2
  /\ IsInitState(1)
  /\ sent[1].to = last.conn
  /\ sent[2].to # last.conn
  /\ sent[2].msg.type = "users_count"

(* ------------------------------------------------------------------ *)
(* The entry was in the registry before the monitor pass of the last step,  *)
(* its transport open and its last liveness signal at most 25 s old.        *)
PingedInTime(e) ==
  ReadyStateThen[e.ws] = "OPEN" /\ now - e.lastHeartbeat <= PING_INTERVAL

(* C24: a monitor pass does not evict a session whose transport is open     *)
(* and whose last ping was handled at most 25 s before the pass; a session  *)
(* that pings at most 25 s apart is in that case at every pass.             *)
C24_PingingSessionKept ==
  last.op = "cleanup" =>
    \A k \in 1..Len(last.users) :
      PingedInTime(last.users[k]) => last.users[k] \in {users[j] : j \in 1..Len(users)}

C24_Witness ==
  /\ last.op = "cleanup"
  /\ now = 2 * HEARTBEAT_INTERVAL
  /\ \E k \in 1..Len(last.users) :
       /\ PingedInTime(last.users[k])
       /\ now - last.users[k].lastHeartbeat = PING_INTERVAL
       /\ UsersHas(users, last.users[k].id)
  /\ \E k \in 1..Len(last.users) : ~UsersHas(users, last.users[k].id)

(* C25: when a claim by a registered session on an unowned cell is accepted, *)
(* the claimer itself is sent exactly one frame by the handler, and that     *)
(* frame is cell_updated for the claimed cell as it now stands in the grid,  *)
(* owned by the claimer: there is no separate acknowledgement.               *)
C25_ClaimerGetsCellUpdated ==
  (ClaimOnGrid /\ last.registered /\ OwnerBefore = NULL)
    => /\ grid[last.cellId].ownerId = connUser[last.conn]
       /\ FramesTo(sent, last.conn)
            = <<[to |-> last.conn,
                 msg |-> CellUpdatedMsg(last.cellId, grid[last.cellId])]>>

(* A claim was accepted while another session was registered with an open    *)
(* transport: the handler sent two frames, one of them to the claimer.       *)
C25_Witness ==
  /\ ClaimOnGrid
  /\ last.registered
  /\ OwnerBefore = NULL
  /\ Len(sent) = 2
  /\ \E k \in 1..Len(sent) :
       sent[k].to = last.conn /\ sent[k].msg.type = "cell_updated"
  /\ \E k \in 1..Len(sent) : sent[k].to # last.conn

(* ------------------------------------------------------------------ *)
(* The last step handled a frame of a connection whose session had been  *)
(* removed from the registry.                                             *)
FrameAfterRemoval ==
  last.op \in FrameTypes /\ last.conn \in last.gone

(* The k-th frame of the last step went to a connection that had a       *)
(* session in the registry at the moment the frame was sent.             *)
ToRegistered(k) ==
  \E j \in 1..Len(RegistryAt(k)) : RegistryAt(k)[j].ws = sent[k].to

(* C26: a connection whose session has been removed from the registry (by *)
(* close, transport error or eviction) has no session in the registry in  *)
(* any later state, whatever frames it sends; a monitor pass leaves every  *)
(* transport in the state it found it in; and every users_count and        *)
(* cell_updated frame goes to a connection whose session is in the         *)
(* registry when the frame is sent, so a removed one is sent none.         *)
C26_RemovedStaysRemoved ==
  /\ \A ws \in last.gone : ~Registered(ws)
  /\ last.op = "cleanup"
       => \A ws \in Conns \ last.failed : readyState[ws] = last.readyState[ws]
  /\ \A k \in 1..Len(sent) :
       sent[k].msg.type \in BroadcastTypes
         => ToRegistered(k) /\ (last.op # "cleanup" => sent[k].to \notin last.gone)

(* An evicted connection, its transport still open, sent a claim for an   *)
(* unowned cell: it was answered with an error alone, the cell stayed     *)
(* unowned and the connection stayed out of the registry, while another   *)
(* session was registered with an open transport.                         *)
C26_Witness ==
  /\ FrameAfterRemoval
  /\ ClaimOnGrid
  /\ OwnerBefore = NULL
  /\ readyState[last.conn] = "OPEN"
  /\ ~Registered(last.conn)
  /\ grid[last.cellId].ownerId = NULL
  /\ Len(sent) = 1
  /\ sent[1].to = last.conn
  /\ sent[1].msg.type = "error"
  /\ OtherOpenSession

(* ------------------------------------------------------------------ *)
(* The connections that had a session and an open transport when the    *)
(* last handler ran.                                                     *)
OpenSessions == {users[k].ws : k \in OpenIn(users)}

(* C27: when a connection is accepted, with c the number of registered    *)
(* sessions with an open transport, the new one among them: every other   *)
(* such session is sent exactly one frame, users_count with count c; the  *)
(* new session is sent exactly one frame, init_state with connectedUsers  *)
(* c, and so no users_count.                                              *)
C27_JoinCount ==
  last.op = "connection"
    => LET c == Cardinality(OpenSessions)
       IN  /\ last.conn \in OpenSessions
           /\ \A ws \in OpenSessions \ {last.conn} :
                FramesTo(sent, ws) = <<[to |-> ws, msg |-> UsersCountMsg(c)]>>
           /\ Len(FramesTo(sent, last.conn)) = 1
           /\ FramesTo(sent, last.conn)[1].msg.type = "init_state"
           /\ FramesTo(sent, last.conn)[1].msg.connectedUsers = c

(* A second connection was accepted while the session of the first was    *)
(* registered with an open transport: the first was sent users_count 2.   *)
C27_Witness ==
  /\ last.op = "connection"
  /\ Cardinality(OpenSessions) = 2
  /\ \E ws \in OpenSessions \ {last.conn} :
       FramesTo(sent, ws) = <<[to |-> ws, msg |-> UsersCountMsg(2)]>>
  /\ \A k \in 1..Len(sent) :
       sent[k].msg.type = "users_count" => sent[k].to # last.conn

====
